---- MODULE Spec2Model ----
(***************************************************************************)
(* Model of the two batch pipelines of the repository:                     *)
(*   src/fix_en_word_mean.py  (splitter: flatten, trim, chunk, write)      *)
(*   src/pp.py                (merger: flatten, reload chunks, merge)      *)
(* The state is the three on-disk areas the programs share (source files,  *)
(* chunk directories, merged files) for every level, the local values of   *)
(* the last call of each pipeline, and the position of a driver (main).    *)
(***************************************************************************)
EXTENDS Integers, Sequences, FiniteSets, TLC

VARIABLES
    src,            \* src[l]: the file en_word/n<l>.json
    dir,            \* dir[l]: the directory en_word_out/n<l> and its chunk files
    merged,         \* merged[l]: the file en_word_merged/n<l>.json
    flat_list,      \* process_level's local flat_list of its last call
    chunks,         \* process_level's local chunks of its last call
    out_paths,      \* index parts of the names process_level wrote in its last call
    updated_flat,   \* merge_level's local updated_flat of its last call
    chunk_paths,    \* load_updated_flat_list's local chunk_files of its last call
    last,           \* the last operation: [op, level, chunk_size, result]
    edits,          \* number of external edits made to chunk files so far
    pc,             \* the driver: [driver, level, status]
    attempted       \* levels the running driver has called its per-level function on

vars == <<src, dir, merged, flat_list, chunks, out_paths, updated_flat, chunk_paths,
          last, edits, pc, attempted>>

(***************************************************************************)
(* Bounds of the model.                                                    *)
(***************************************************************************)
MaxNodes == 4        \* nodes (groups + items) of a source dataset, round-trip runs
MaxEditNodes == 3    \* nodes of a source dataset in the runs with external edits
MaxChunkSize == 2    \* chunk_size values tried: 1..MaxChunkSize
MaxEdits == 2        \* external edits between the two passes

(***************************************************************************)
(* Program constants.                                                      *)
(***************************************************************************)
NumLevels == 5          \* range(1, 6)
MainChunkSize == 120    \* process_level(level, chunk_size=120)
Levels == 1..NumLevels

(***************************************************************************)
(* JSON values.  Every value is a record [t, f, e]: t is its type, f the   *)
(* fields of a dict (a function from key to string), e the elements of a   *)
(* list.  Field values are strings; None stands for Python's None, which   *)
(* dict.get returns for an absent key.                                     *)
(***************************************************************************)
None == "<None>"
NoFields == [k \in {} |-> ""]
Scalar == [t |-> "scalar", f |-> NoFields, e |-> <<>>]
Dict(fields) == [t |-> "dict", f |-> fields, e |-> <<>>]
List(elems) == [t |-> "list", f |-> NoFields, e |-> elems]

\* dict.get(key, default)
Get(fields, key, default) == IF key \in DOMAIN fields THEN fields[key] ELSE default

\* A file: absent, present but not parseable as JSON, or holding a JSON value.
\* json.load of what json.dump wrote returns the value written (strings, lists
\* and dicts with string keys), so a file is modelled by the value it holds.
Absent == [st |-> "absent", val |-> Scalar]
Invalid == [st |-> "invalid", val |-> Scalar]
Json(v) == [st |-> "json", val |-> v]

NoDir == [exists |-> FALSE, files |-> <<>>]

Min(a, b) == IF a < b THEN a ELSE b

RECURSIVE Concat(_)
Concat(seqs) == IF seqs = <<>> THEN <<>> ELSE Head(seqs) \o Concat(Tail(seqs))

IsDict(v) == v.t = "dict"

(***************************************************************************)
(* Splitter: src/fix_en_word_mean.py                                       *)
(***************************************************************************)
\* flatten_and_extract: non-list data gives [], non-list groups and non-dict
\* items are skipped, every dict is trimmed to the three fields ("" if absent).
Trim(item) ==
    Dict([k \in {"yomikata", "word", "mean"} |-> Get(item.f, k, "")])

\* A faulty variant of GroupExtract: entries with an empty word are skipped too.
GroupExtract_skip_blank(inner) ==
    IF inner.t # "list" THEN <<>>
    ELSE LET ds == SelectSeq(inner.e, LAMBDA it : IsDict(it) /\ Get(it.f, "word", "") # "")
         IN [i \in 1..Len(ds) |-> Trim(ds[i])]

GroupExtract(inner) ==
    IF inner.t # "list" THEN <<>>
    ELSE LET ds == SelectSeq(inner.e, IsDict)
         IN [i \in 1..Len(ds) |-> Trim(ds[i])]

flatten_and_extract(data) ==
    IF data.t # "list" THEN <<>>
    ELSE Concat([g \in 1..Len(data.e) |-> GroupExtract(data.e[g])])

\* chunk_list: [lst[i:i + chunk_size] for i in range(0, len(lst), chunk_size)]
RangeCount(n, step) == (n + step - 1) \div step

\* Faulty variants of chunk_list: the short last chunk is dropped; the slices
\* overlap by one element.
chunk_list_full_only(lst, chunk_size) ==
    [j \in 1..(Len(lst) \div chunk_size) |->
        SubSeq(lst, (j - 1) * chunk_size + 1, j * chunk_size)]

chunk_list_overlap(lst, chunk_size) ==
    [j \in 1..RangeCount(Len(lst), chunk_size) |->
        SubSeq(lst, (j - 1) * chunk_size + 1, Min(j * chunk_size + 1, Len(lst)))]

chunk_list(lst, chunk_size) ==
    [j \in 1..RangeCount(Len(lst), chunk_size) |->
        SubSeq(lst, (j - 1) * chunk_size + 1, Min(j * chunk_size, Len(lst)))]

\* A chunk file n<level>_<index>.json of a level's directory is named by its
\* index part, a sequence of characters (whatever stands between "n<level>_"
\* and ".json").  Str is Python's decimal formatting of a positive integer.
Digits == <<"0", "1", "2", "3", "4", "5", "6", "7", "8", "9">>
DigitChars == {Digits[i] : i \in 1..10}

RECURSIVE Str(_)
Str(n) == IF n < 10 THEN <<Digits[n + 1]>>
          ELSE Str(n \div 10) \o <<Digits[(n % 10) + 1]>>

\* A faulty variant of WriteChunks: the directory is emptied before the chunks are written.
WriteChunks_fresh(files, cs) ==
    [name \in {Str(i) : i \in 1..Len(cs)} |->
        Json(List(cs[CHOOSE i \in 1..Len(cs) : Str(i) = name]))]

\* The files of a directory after the write loop (enumerate(chunks, start=1)).
WriteChunks(files, cs) ==
    LET written == {Str(i) : i \in 1..Len(cs)}
        idx(name) == CHOOSE i \in 1..Len(cs) : Str(i) = name
    IN [name \in (DOMAIN files) \cup written |->
            IF name \in written THEN Json(List(cs[idx(name)])) ELSE files[name]]

\* process_level as a function of the level's files: what it leaves on disk,
\* its locals, and how it ended.
process_level_run(source, d, chunk_size) ==
    LET made == [exists |-> TRUE, files |-> d.files]    \* mkdir(exist_ok=True)
        flat == flatten_and_extract(source.val)
        cs == chunk_list(flat, chunk_size)
        none == [dir |-> made, flat_list |-> <<>>, chunks |-> <<>>, out_paths |-> <<>>]
    IN IF source.st = "absent"
       THEN [none EXCEPT !.dir = d] @@ [result |-> "skip"]
       ELSE IF source.st = "invalid"                       \* json.load raises
       THEN none @@ [result |-> "raise"]
       ELSE IF flat = <<>>
       THEN [none EXCEPT !.flat_list = flat] @@ [result |-> "empty"]
       ELSE [dir |-> [exists |-> TRUE, files |-> WriteChunks(d.files, cs)],
             flat_list |-> flat, chunks |-> cs,
             out_paths |-> [i \in 1..Len(cs) |-> Str(i)], result |-> "written"]

process_level(level, chunk_size) ==
    LET r == process_level_run(src[level], dir[level], chunk_size)
    IN /\ dir' = [dir EXCEPT ![level] = r.dir]
       /\ flat_list' = r.flat_list
       /\ chunks' = r.chunks
       /\ out_paths' = r.out_paths
       /\ last' = [op |-> "split", level |-> level, chunk_size |-> chunk_size,
                   result |-> r.result]
       /\ UNCHANGED <<src, merged, updated_flat, chunk_paths>>

(***************************************************************************)
(* Merger: src/pp.py                                                       *)
(***************************************************************************)
\* flatten_original_items returns references to the dicts of the nested
\* structure; a reference is the path <<g, i>> of the item data[g][i].
GroupRefs(data, g) ==
    LET inner == data.e[g]
    IN IF inner.t # "list" THEN <<>>
       ELSE LET is == SelectSeq([i \in 1..Len(inner.e) |-> i],
                                LAMBDA i : inner.e[i].t = "dict")
            IN [k \in 1..Len(is) |-> <<g, is[k]>>]

flatten_original_items(data) ==
    IF data.t # "list" THEN <<>>
    ELSE Concat([g \in 1..Len(data.e) |-> GroupRefs(data, g)])

Deref(data, ref) == data.e[ref[1]].e[ref[2]]

\* file_index: int(p.stem.split("_")[1]), 0 when int() raises.
IsNumeral(name) == name # <<>> /\ \A i \in 1..Len(name) : name[i] \in DigitChars
DigitVal(c) == CHOOSE d \in 0..9 : Digits[d + 1] = c

RECURSIVE ParseInt(_)
ParseInt(name) == IF name = <<>> THEN 0
             ELSE 10 * ParseInt(SubSeq(name, 1, Len(name) - 1)) + DigitVal(name[Len(name)])

file_index(name) == IF IsNumeral(name) THEN ParseInt(name) ELSE 0

\* Lexicographic order of two names as strings (the order of the paths).
CharCode(c) == IF c \in DigitChars THEN DigitVal(c) ELSE 10

RECURSIVE LexLeq(_, _)
LexLeq(a, b) ==
    IF a = <<>> THEN TRUE
    ELSE IF b = <<>> THEN FALSE
    ELSE IF CharCode(Head(a)) # CharCode(Head(b)) THEN CharCode(Head(a)) < CharCode(Head(b))
    ELSE LexLeq(Tail(a), Tail(b))

\* A faulty variant of chunk_files_key: sorted() without key orders the paths as strings.
chunk_files_by_path(a, b) == LexLeq(a, b)

\* sorted(level_dir.glob(...), key=file_index): a may stand before b.
chunk_files_key(a, b) == file_index(a) <= file_index(b)

\* The orders sorted() can return: glob's order is not specified and the sort
\* is stable, so files with equal keys come in any order.
RECURSIVE Sorted(_)
Sorted(names) ==
    IF names = {} THEN {<<>>}
    ELSE UNION {{<<m>> \o rest : rest \in Sorted(names \ {m})} :
                  m \in {a \in names : \A b \in names : chunk_files_key(a, b)}}

chunk_files(d) == Sorted(DOMAIN d.files)

\* The items one chunk file contributes: none when it does not parse or is
\* not a list; otherwise its dict items.
ChunkItems(file) ==
    IF file.st # "json" THEN <<>>
    ELSE IF file.val.t # "list" THEN <<>>
    ELSE SelectSeq(file.val.e, IsDict)

\* load_updated_flat_list, for the order in which the files are visited.
load_updated_flat_list(d, order) ==
    IF ~d.exists THEN <<>>
    ELSE Concat([k \in 1..Len(order) |-> ChunkItems(d.files[order[k]])])

\* orig["mean"] = value, on the item a reference points to.
SetMean(data, ref, value) ==
    LET old == Deref(data, ref).f
        new == [k \in (DOMAIN old) \cup {"mean"} |-> IF k = "mean" THEN value ELSE old[k]]
    IN [data EXCEPT !.e[ref[1]].e[ref[2]].f = new]

\* The test of the merge loop: word or yomikata differ (dict.get without default).
Mismatch(orig, upd) ==
    \/ Get(orig.f, "word", None) # Get(upd.f, "word", None)
    \/ Get(orig.f, "yomikata", None) # Get(upd.f, "yomikata", None)

\* Faulty variants of MergeLoop: a mismatch ends the loop (break for
\* continue); an updated entry without mean is skipped.
RECURSIVE MergeLoop_break(_, _, _, _)
MergeLoop_break(data, original_flat, upd_flat, i) ==
    IF i > Min(Len(original_flat), Len(upd_flat)) THEN data
    ELSE IF Mismatch(Deref(data, original_flat[i]), upd_flat[i])
         THEN data
         ELSE MergeLoop_break(SetMean(data, original_flat[i], Get(upd_flat[i].f, "mean", "")),
                              original_flat, upd_flat, i + 1)

RECURSIVE MergeLoop_skip_absent_mean(_, _, _, _)
MergeLoop_skip_absent_mean(data, original_flat, upd_flat, i) ==
    IF i > Min(Len(original_flat), Len(upd_flat)) THEN data
    ELSE IF \/ Mismatch(Deref(data, original_flat[i]), upd_flat[i])
            \/ "mean" \notin DOMAIN upd_flat[i].f
         THEN MergeLoop_skip_absent_mean(data, original_flat, upd_flat, i + 1)
         ELSE MergeLoop_skip_absent_mean(
                  SetMean(data, original_flat[i], upd_flat[i].f["mean"]),
                  original_flat, upd_flat, i + 1)

\* for i, (orig, upd) in enumerate(zip(original_flat, updated_flat), start=1)
RECURSIVE MergeLoop(_, _, _, _)
MergeLoop(data, original_flat, upd_flat, i) ==
    IF i > Min(Len(original_flat), Len(upd_flat)) THEN data
    ELSE IF Mismatch(Deref(data, original_flat[i]), upd_flat[i])
         THEN MergeLoop(data, original_flat, upd_flat, i + 1)
         ELSE MergeLoop(SetMean(data, original_flat[i], Get(upd_flat[i].f, "mean", "")),
                        original_flat, upd_flat, i + 1)

\* A faulty variant of LengthsDiffer: only a longer updated sequence is refused.
LengthsDiffer_longer_only(original_flat, upd_flat) == Len(original_flat) < Len(upd_flat)

\* The validation gate of merge_level.
LengthsDiffer(original_flat, upd_flat) == Len(original_flat) # Len(upd_flat)

\* A faulty variant of merge_level_run: after a length mismatch the source is still
\* written out, unmerged.
merge_level_run_writes_on_abort(source, d, old_merged, order) ==
    LET original_flat == flatten_original_items(source.val)
        upd == load_updated_flat_list(d, order)
    IN IF source.st = "absent"
       THEN [merged |-> old_merged, updated_flat |-> <<>>, paths |-> <<>>, result |-> "skip"]
       ELSE IF source.st = "invalid"
       THEN [merged |-> old_merged, updated_flat |-> <<>>, paths |-> <<>>, result |-> "raise"]
       ELSE IF LengthsDiffer(original_flat, upd)
       THEN [merged |-> Json(source.val), updated_flat |-> upd, paths |-> order,
             result |-> "abort"]
       ELSE [merged |-> Json(MergeLoop(source.val, original_flat, upd, 1)),
             updated_flat |-> upd, paths |-> order, result |-> "written"]

\* merge_level as a function of the level's files and of the order in which
\* the chunk files are visited.
merge_level_run(source, d, old_merged, order) ==
    LET original_flat == flatten_original_items(source.val)
        upd == load_updated_flat_list(d, order)
    IN IF source.st = "absent"
       THEN [merged |-> old_merged, updated_flat |-> <<>>, paths |-> <<>>, result |-> "skip"]
       ELSE IF source.st = "invalid"                       \* json.load raises
       THEN [merged |-> old_merged, updated_flat |-> <<>>, paths |-> <<>>, result |-> "raise"]
       ELSE IF LengthsDiffer(original_flat, upd)
       THEN [merged |-> old_merged, updated_flat |-> upd, paths |-> order, result |-> "abort"]
       ELSE [merged |-> Json(MergeLoop(source.val, original_flat, upd, 1)),
             updated_flat |-> upd, paths |-> order, result |-> "written"]

merge_level(level) ==
    \E order \in chunk_files(dir[level]) :
        LET r == merge_level_run(src[level], dir[level], merged[level], order)
        IN /\ merged' = [merged EXCEPT ![level] = r.merged]
           /\ updated_flat' = r.updated_flat
           /\ chunk_paths' = r.paths
           /\ last' = [op |-> "merge", level |-> level, chunk_size |-> 0,
                       result |-> r.result]
           /\ UNCHANGED <<src, dir, flat_list, chunks, out_paths>>

(***************************************************************************)
(* External edits of chunk files between the two passes (the chunk files   *)
(* are "possibly hand-edited"; the merger reads whatever is on disk).      *)
(***************************************************************************)
EditValues == {"new"}
EditKeys == {"yomikata", "word", "mean"}
DropKeys == {"word", "mean"}

ListFiles(d) == {n \in DOMAIN d.files : d.files[n].st = "json" /\ d.files[n].val.t = "list"}

PutFile(level, name, file) ==
    /\ edits < MaxEdits
    /\ dir' = [dir EXCEPT ![level].files[name] = file]
    /\ edits' = edits + 1
    /\ last' = [op |-> "edit", level |-> level, chunk_size |-> 0, result |-> "edited"]
    /\ UNCHANGED <<src, merged, flat_list, chunks, out_paths, updated_flat, chunk_paths,
                   pc, attempted>>

PutItems(level, name, items) == PutFile(level, name, Json(List(items)))

\* An editor sets one field of one entry.
EditField(level) ==
    \E name \in ListFiles(dir[level]) :
        LET items == dir[level].files[name].val.e
        IN \E i \in 1..Len(items), key \in EditKeys, value \in EditValues :
              /\ items[i].t = "dict"
              /\ Get(items[i].f, key, None) # value
              /\ PutItems(level, name, [items EXCEPT ![i].f =
                    [k \in (DOMAIN items[i].f) \cup {key} |->
                        IF k = key THEN value ELSE items[i].f[k]]])

\* An editor removes one field of one entry.
DropField(level) ==
    \E name \in ListFiles(dir[level]) :
        LET items == dir[level].files[name].val.e
        IN \E i \in 1..Len(items), key \in DropKeys :
              /\ items[i].t = "dict"
              /\ key \in DOMAIN items[i].f
              /\ PutItems(level, name, [items EXCEPT ![i].f =
                    [k \in (DOMAIN items[i].f) \ {key} |-> items[i].f[k]]])

\* An editor deletes one entry.
DeleteItem(level) ==
    \E name \in ListFiles(dir[level]) :
        LET items == dir[level].files[name].val.e
        IN \E i \in 1..Len(items) :
              PutItems(level, name, SubSeq(items, 1, i - 1) \o SubSeq(items, i + 1, Len(items)))

\* An editor exchanges two neighbouring entries.
SwapItems(level) ==
    \E name \in ListFiles(dir[level]) :
        LET items == dir[level].files[name].val.e
        IN \E i \in 1..(Len(items) - 1) :
              /\ items[i] # items[i + 1]
              /\ PutItems(level, name, [items EXCEPT ![i] = items[i + 1], ![i + 1] = items[i]])

\* An editor leaves a file that is not JSON, or JSON that is not a list.
BreakFile(level) ==
    \E name \in DOMAIN dir[level].files :
        /\ dir[level].files[name].st = "json"
        /\ PutFile(level, name, Invalid)

NonListFile(level) ==
    \E name \in ListFiles(dir[level]) : PutFile(level, name, Json(Scalar))

(***************************************************************************)
(* Inputs: source datasets, chunk directories left by earlier runs, and    *)
(* earlier merged files.                                                   *)
(***************************************************************************)
RecA == Dict([yomikata |-> "ya", word |-> "a", mean |-> "old", id |-> "7"])
RecB == Dict([yomikata |-> "yb", word |-> "b", mean |-> "olb"])
RecM == Dict([yomikata |-> "ya", word |-> "a"])
RecW == Dict([yomikata |-> "ya"])

RoundTripItems == {RecA, RecM, RecW, Scalar}
EditItems == {RecA, RecB, Scalar}

SeqsUpTo(S, n) == UNION {[1..k -> S] : k \in 0..n}

\* The elements of a dataset: a non-list, or a group of at most n - 1 items.
Elems(items, n) == {Scalar} \cup {List(s) : s \in SeqsUpTo(items, n - 1)}

\* All datasets (lists of elements) of at most n nodes, a node being an
\* element or an item of a group.
RECURSIVE Datasets(_, _)
Datasets(items, n) ==
    IF n <= 0 THEN {<<>>}
    ELSE {<<>>} \cup UNION {{<<el>> \o d : d \in Datasets(items, n - 1 - Len(el.e))} :
                              el \in Elems(items, n)}

SourceFiles(items, n) ==
    {Absent, Invalid, Json(Scalar)} \cup {Json(List(d)) : d \in Datasets(items, n)}

\* Chunk files an earlier run may have left in a level's directory.
StaleRec(w) == Json(List(<<Dict([yomikata |-> "ys", word |-> w, mean |-> "stale"])>>))
StaleFiles ==
    (<<"1", "0">> :> StaleRec("s10")) @@ (<<"3">> :> StaleRec("s3"))

Restrict(f, S) == IF S = {} THEN <<>> ELSE [x \in S |-> f[x]]

StaleDirs == {NoDir} \cup
    {[exists |-> TRUE, files |-> Restrict(StaleFiles, S)] : S \in SUBSET DOMAIN StaleFiles}

OldMerged == Json(List(<<>>))
FirstLevel == 1

Idle == [driver |-> "none", level |-> 0, status |-> "idle"]

InitWith(sources, dirs, mergeds) ==
    /\ \E s \in sources :
          src = [l \in Levels |-> IF l = FirstLevel THEN s ELSE Absent]
    /\ \E d \in dirs :
          dir = [l \in Levels |-> IF l = FirstLevel THEN d ELSE NoDir]
    /\ \E m \in mergeds :
          merged = [l \in Levels |-> IF l = FirstLevel THEN m ELSE Absent]
    /\ flat_list = <<>>
    /\ chunks = <<>>
    /\ out_paths = <<>>
    /\ updated_flat = <<>>
    /\ chunk_paths = <<>>
    /\ last = [op |-> "init", level |-> 0, chunk_size |-> 0, result |-> "none"]
    /\ edits = 0
    /\ pc = Idle
    /\ attempted = {}

\* A call of process_level or merge_level on the level that holds the data.
CallProcessLevel ==
    /\ \E chunk_size \in 1..MaxChunkSize : process_level(FirstLevel, chunk_size)
    /\ UNCHANGED <<edits, pc, attempted>>

CallMergeLevel ==
    /\ merge_level(FirstLevel)
    /\ UNCHANGED <<edits, pc, attempted>>

(***************************************************************************)
(* Spec: one run of the pipeline on a level.  Pass one (at most once),     *)
(* then external edits of the chunk files, then pass two.                  *)
(***************************************************************************)
Init == InitWith(SourceFiles(EditItems, MaxEditNodes), {NoDir}, {Absent, OldMerged})

PassOne == last.op = "init" /\ CallProcessLevel

Edit ==
    \/ EditField(FirstLevel)
    \/ DropField(FirstLevel)
    \/ DeleteItem(FirstLevel)
    \/ SwapItems(FirstLevel)
    \/ BreakFile(FirstLevel)
    \/ NonListFile(FirstLevel)

PassTwo == last.op # "merge" /\ CallMergeLevel

Next == PassOne \/ Edit \/ PassTwo

Spec == Init /\ [][Next]_vars

(***************************************************************************)
(* SpecRoundTrip: the two passes with no edit, over richer datasets and    *)
(* directories that hold files of earlier runs.                            *)
(***************************************************************************)
InitRoundTrip == InitWith(SourceFiles(RoundTripItems, MaxNodes), StaleDirs, {Absent})

NextRoundTrip == CallProcessLevel \/ CallMergeLevel

SpecRoundTrip == InitRoundTrip /\ [][NextRoundTrip]_vars

(***************************************************************************)
(* SpecMain: the two drivers.  Each main() calls its per-level function on *)
(* the levels 1..5 in order; an exception that leaves the per-level        *)
(* function ends the loop and the process.                                 *)
(***************************************************************************)
OneEntry == Json(List(<<List(<<RecA>>)>>))
StaleDir(name, file) == [exists |-> TRUE, files |-> (name :> file)]

\* What a level may hold before the drivers run.
MainLevels ==
    { [src |-> Absent, dir |-> NoDir],
      [src |-> Invalid, dir |-> NoDir],
      [src |-> OneEntry, dir |-> NoDir],
      [src |-> OneEntry, dir |-> StaleDir(<<"1", "0">>, StaleRec("s10"))],
      [src |-> OneEntry, dir |-> StaleDir(<<"x">>, Invalid)] }

InitMain ==
    /\ \E f \in [Levels -> MainLevels] :
          /\ src = [l \in Levels |-> f[l].src]
          /\ dir = [l \in Levels |-> f[l].dir]
    /\ merged = [l \in Levels |-> Absent]
    /\ flat_list = <<>>
    /\ chunks = <<>>
    /\ out_paths = <<>>
    /\ updated_flat = <<>>
    /\ chunk_paths = <<>>
    /\ last = [op |-> "init", level |-> 0, chunk_size |-> 0, result |-> "none"]
    /\ edits = 0
    /\ pc = Idle
    /\ attempted = {}

\* One of the two programs is started.
Start(driver) ==
    /\ pc.status # "running"
    /\ pc' = [driver |-> driver, level |-> 1, status |-> "running"]
    /\ attempted' = {}
    /\ UNCHANGED <<src, dir, merged, flat_list, chunks, out_paths, updated_flat,
                   chunk_paths, last, edits>>

\* The position after the call on pc.level ended with `result`.
AfterCall(result) ==
    IF result = "raise" THEN [pc EXCEPT !.status = "crashed"]
    ELSE IF pc.level = NumLevels THEN [pc EXCEPT !.status = "done"]
    ELSE [pc EXCEPT !.level = pc.level + 1]

\* for level in range(1, 6): process_level(level, chunk_size=120)
splitter_main ==
    /\ pc.driver = "splitter" /\ pc.status = "running"
    /\ process_level(pc.level, MainChunkSize)
    /\ attempted' = attempted \cup {pc.level}
    /\ pc' = AfterCall(last'.result)
    /\ UNCHANGED edits

\* for level in range(1, 6): merge_level(level)
merger_main ==
    /\ pc.driver = "merger" /\ pc.status = "running"
    /\ merge_level(pc.level)
    /\ attempted' = attempted \cup {pc.level}
    /\ pc' = AfterCall(last'.result)
    /\ UNCHANGED edits

NextMain == Start("splitter") \/ Start("merger") \/ splitter_main \/ merger_main

SpecMain == InitMain /\ [][NextMain]_vars

(***************************************************************************)
(* Properties of the splitter and of the round trip (SpecRoundTrip).       *)
(***************************************************************************)
Range(seq) == {seq[i] : i \in DOMAIN seq}

RECURSIVE SumLen(_)
SumLen(seqs) == IF seqs = <<>> THEN 0 ELSE Len(Head(seqs)) + SumLen(Tail(seqs))

SplitDone == last.op = "split" /\ last.result \in {"written", "empty"}
MergeDone == last.op = "merge" /\ last.result \in {"abort", "written"}

\* The chunk file process_level wrote under index j in its last call.
Numbered == /\ \A j \in DOMAIN out_paths : IsNumeral(out_paths[j])
            /\ {ParseInt(n) : n \in Range(out_paths)} = 1..Len(out_paths)
WrittenFile(j) ==
    dir[last.level].files[CHOOSE n \in Range(out_paths) : ParseInt(n) = j]

\* C7: after process_level, the chunk files it wrote, concatenated in ascending
\* chunk index, are the flattened trimmed source element for element, and the
\* number of entries over all of them is the length of the flattened source.
C7_ChunkingExact ==
    SplitDone =>
        LET flat == flatten_and_extract(src[last.level].val)
            k == Len(out_paths)
        IN /\ Range(out_paths) \subseteq DOMAIN dir[last.level].files
           /\ Numbered
           /\ \A j \in 1..k : WrittenFile(j).st = "json" /\ WrittenFile(j).val.t = "list"
           /\ Concat([j \in 1..k |-> WrittenFile(j).val.e]) = flat
           /\ SumLen([j \in 1..k |-> WrittenFile(j).val.e]) = Len(flat)

\* C7 witness: three distinct entries written as chunks of 2 and 1.
C7_Witness ==
    /\ SplitDone
    /\ Len(out_paths) = 2
    /\ Len(chunks[1]) = 2 /\ Len(chunks[2]) = 1
    /\ chunks[1][1] # chunks[1][2]

\* C8: every chunk file written except the last holds exactly chunk_size
\* entries, the last holds 1..chunk_size, the files are numbered 1, 2, ... in
\* the order of the chunks, and none is written only if the flattened source
\* is empty.
C8_ChunkSizes ==
    SplitDone =>
        LET l == last.level
            k == Len(out_paths)
            size(j) == Len(dir[l].files[out_paths[j]].val.e)
        IN /\ Range(out_paths) \subseteq DOMAIN dir[l].files
           /\ \A j \in 1..k : IsNumeral(out_paths[j]) /\ ParseInt(out_paths[j]) = j
           /\ \A j \in 1..(k - 1) : size(j) = last.chunk_size
           /\ k > 0 => size(k) \in 1..last.chunk_size
           /\ k = 0 <=> flatten_and_extract(src[l].val) = <<>>

\* C8 witness: chunk_size 2, two files, the last one short.
C8_Witness ==
    /\ SplitDone
    /\ last.chunk_size = 2
    /\ Len(out_paths) = 2
    /\ Len(dir[last.level].files[out_paths[2]].val.e) = 1

\* C9: load_updated_flat_list visits every chunk file of the directory once,
\* a file of smaller numeric index before a file of larger numeric index, and
\* the updated sequence is the concatenation of their entries in that order.
C9_NumericOrder ==
    (MergeDone /\ dir[last.level].exists) =>
        LET d == dir[last.level]
        IN /\ Range(chunk_paths) = DOMAIN d.files
           /\ Len(chunk_paths) = Cardinality(DOMAIN d.files)
           /\ \A i, j \in DOMAIN chunk_paths :
                 (/\ IsNumeral(chunk_paths[i]) /\ IsNumeral(chunk_paths[j])
                  /\ ParseInt(chunk_paths[i]) < ParseInt(chunk_paths[j])) => i < j
           /\ updated_flat =
                 Concat([k \in DOMAIN chunk_paths |-> ChunkItems(d.files[chunk_paths[k]])])

\* C9 witness: files 1, 2 and 10 were read, 10 after 2 though "10" < "2" as strings.
C9_Witness ==
    /\ MergeDone
    /\ {<<"1">>, <<"2">>, <<"1", "0">>} \subseteq Range(chunk_paths)
    /\ LexLeq(<<"1", "0">>, <<"2">>)

\* C10: process_level creates or overwrites only the files n<level>_1 ..
\* n<level>_k of its k chunks, in the directory of its level, and leaves every
\* other file as it was; merge_level reads every file of the directory, the
\* files of earlier runs with an index above k included.
C10_SplitterFrame ==
    [][/\ last'.op = "split" =>
             LET l == last'.level
                 written == {Str(j) : j \in 1..Len(chunks')}
             IN /\ \A l2 \in Levels \ {l} : dir'[l2] = dir[l2]
                /\ Range(out_paths') = written
                /\ DOMAIN dir'[l].files = (DOMAIN dir[l].files) \cup written
                /\ \A n \in (DOMAIN dir[l].files) \ written :
                      dir'[l].files[n] = dir[l].files[n]
                /\ src' = src /\ merged' = merged
       /\ (last'.op = "merge" /\ last'.result \in {"abort", "written"}
              /\ dir[last'.level].exists) =>
             /\ Range(chunk_paths') = DOMAIN dir[last'.level].files
             /\ dir' = dir
      ]_vars

\* C10 witness: merge_level read a file whose index is above the number of
\* chunks the last process_level wrote.
C10_Witness ==
    /\ MergeDone
    /\ out_paths # <<>>
    /\ \E i \in DOMAIN chunk_paths :
          /\ IsNumeral(chunk_paths[i])
          /\ ParseInt(chunk_paths[i]) > Len(out_paths)
          /\ ChunkItems(dir[last.level].files[chunk_paths[i]]) # <<>>

\* The source with mean = "" added to every record of a group that has word
\* and yomikata and no mean.
FillItem(it) ==
    IF it.t = "dict" /\ {"word", "yomikata"} \subseteq DOMAIN it.f /\ "mean" \notin DOMAIN it.f
    THEN Dict([k \in (DOMAIN it.f) \cup {"mean"} |-> IF k = "mean" THEN "" ELSE it.f[k]])
    ELSE it
FillGroup(g) ==
    IF g.t = "list" THEN List([i \in 1..Len(g.e) |-> FillItem(g.e[i])]) ELSE g
WithDefaultMean(data) ==
    IF data.t = "list" THEN List([g \in 1..Len(data.e) |-> FillGroup(data.e[g])]) ELSE data

\* A step of merge_level that directly follows process_level on the same level.
SplitThenMerge ==
    /\ SplitDone
    /\ last'.op = "merge" /\ last'.level = last.level

\* The chunk directory holds the files the last process_level wrote and no other.
OnlyThisRun == DOMAIN dir[last.level].files = Range(out_paths)

\* C1 as stated: process_level then merge_level with no edit in between writes
\* a merged file identical to the source, for every source dataset, records
\* that lack some of the three fields included.  (Stated for a chunk
\* directory that holds the chunks of this run only; without that the lengths
\* may differ and nothing is written.)
C1_RoundTripAsStated ==
    [][(SplitThenMerge /\ OnlyThisRun) =>
          /\ last'.result = "written"
          /\ merged'[last.level] = Json(src[last.level].val)]_vars

\* C1, amended: when the chunk directory holds no file but those this run of
\* process_level wrote, process_level then merge_level writes a merged file
\* equal to the source except that a record with word and yomikata and without
\* mean has gained mean = "".
C1_RoundTrip ==
    [][(SplitThenMerge /\ OnlyThisRun) =>
          /\ last'.result = "written"
          /\ merged'[last.level] = Json(WithDefaultMean(src[last.level].val))]_vars

\* C1 witness: a two-pass run on a dataset of several groups that holds a
\* record without mean.
C1_Witness ==
    /\ MergeDone /\ last.result = "written"
    /\ out_paths # <<>>
    /\ OnlyThisRun
    /\ Len(src[last.level].val.e) >= 2
    /\ merged[last.level] = Json(WithDefaultMean(src[last.level].val))
    /\ merged[last.level] # Json(src[last.level].val)

(***************************************************************************)
(* Properties of the merger (Spec) and of the drivers (SpecMain).          *)
(***************************************************************************)
\* The source entries of the level of the last merge_level, in flattened
\* order, and the entries at the same places of the merged file.
SrcRefs == flatten_original_items(src[last.level].val)
SrcItem(i) == Deref(src[last.level].val, SrcRefs[i])
MergedItem(i) == Deref(merged[last.level].val, SrcRefs[i])

\* Word or reading of a source entry and an updated entry differ.
Differs(s, u) ==
    \/ Get(s.f, "word", None) # Get(u.f, "word", None)
    \/ Get(s.f, "yomikata", None) # Get(u.f, "yomikata", None)

SameCount == Len(SrcRefs) = Len(updated_flat)
DiffersAt(i) == Differs(SrcItem(i), updated_flat[i])

\* C3 as stated: when the chunk files do not reproduce the flattened source in
\* count and order (compared on word and reading), no merge is applied.
C3_NoMergeUnlessExact ==
    (MergeDone /\ ~(SameCount /\ \A i \in DOMAIN SrcRefs : ~DiffersAt(i)))
        => last.result = "abort"

\* C3, amended: no merge is applied exactly when the counts differ.  With
\* equal counts the merge is applied and the output written even if entries
\* differ (a changed order included); the entries at differing positions are
\* written as they are in the source.
C3_MergeIffSameCount ==
    MergeDone =>
        /\ last.result = "written" <=> SameCount
        /\ last.result = "abort" <=> ~SameCount
        /\ last.result = "written" =>
              /\ merged[last.level].st = "json"
              /\ \A i \in DOMAIN SrcRefs : DiffersAt(i) => MergedItem(i) = SrcItem(i)

\* C3 witness: two entries changed places (equal count, other order) and the
\* output was written.
C3_Witness ==
    /\ MergeDone /\ last.result = "written"
    /\ Len(SrcRefs) = 2
    /\ DiffersAt(1) /\ DiffersAt(2)
    /\ ~Differs(SrcItem(1), updated_flat[2]) /\ ~Differs(SrcItem(2), updated_flat[1])

\* The merged dataset the claim C4 describes: the source, each record of a
\* group with its mean set to the mean of the updated entry of the same
\* flattened position.
CountDicts(items) == Len(SelectSeq(items, IsDict))
RECURSIVE DictsBefore(_, _)
DictsBefore(data, g) ==
    IF g <= 1 THEN 0
    ELSE DictsBefore(data, g - 1) +
         (IF data.e[g - 1].t = "list" THEN CountDicts(data.e[g - 1].e) ELSE 0)
Position(data, g, i) == DictsBefore(data, g) + CountDicts(SubSeq(data.e[g].e, 1, i))
WithMean(item, u) ==
    Dict([k \in (DOMAIN item.f) \cup {"mean"} |->
            IF k = "mean" THEN Get(u.f, "mean", "") ELSE item.f[k]])
Expected(data, upd) ==
    List([g \in 1..Len(data.e) |->
        IF data.e[g].t # "list" THEN data.e[g]
        ELSE List([i \in 1..Len(data.e[g].e) |->
                IF data.e[g].e[i].t # "dict" THEN data.e[g].e[i]
                ELSE WithMean(data.e[g].e[i], upd[Position(data, g, i)])])])

\* C4: with equal counts and equal word and reading at every position, the
\* merged file is the source with every entry's mean replaced by the mean of
\* the updated entry at its position ("" when that entry has none); other
\* fields, grouping and order are the source's.
C4_MergeCorrect ==
    (MergeDone /\ SameCount /\ \A i \in DOMAIN SrcRefs : ~DiffersAt(i)) =>
        /\ last.result = "written"
        /\ merged[last.level] =
              IF src[last.level].val.t = "list"
              THEN Json(Expected(src[last.level].val, updated_flat))
              ELSE Json(src[last.level].val)

\* C4 witness: one mean edited on a record with an extra field, one mean removed.
C4_Witness ==
    /\ MergeDone /\ SameCount /\ \A i \in DOMAIN SrcRefs : ~DiffersAt(i)
    /\ \E i, j \in DOMAIN SrcRefs :
          /\ Get(updated_flat[i].f, "mean", None) = "new"
          /\ "id" \in DOMAIN SrcItem(i).f
          /\ "mean" \notin DOMAIN updated_flat[j].f
          /\ MergedItem(j).f["mean"] = ""

\* The number of entries the chunk files of a directory contribute: those of
\* the files that parse and hold a list; none when the directory is missing.
Contribution(d) ==
    IF ~d.exists THEN 0
    ELSE LET names == DOMAIN d.files
             RECURSIVE Sum(_)
             Sum(S) == IF S = {} THEN 0
                       ELSE LET n == CHOOSE x \in S : TRUE
                            IN (IF d.files[n].st = "json" /\ d.files[n].val.t = "list"
                                THEN CountDicts(d.files[n].val.e) ELSE 0) + Sum(S \ {n})
         IN Sum(names)

\* C5: a merge_level whose source count differs from the count of the entries
\* reassembled from the chunk files (a missing directory counts 0, a file
\* that does not parse or is not a list counts 0) leaves every merged file,
\* of its level and of the others, as it was.
C5_LengthGuard ==
    [][(/\ last'.op = "merge"
        /\ src[last'.level].st = "json"
        /\ Len(flatten_original_items(src[last'.level].val)) # Contribution(dir[last'.level]))
          => /\ merged' = merged
             /\ last'.result = "abort"
             /\ Len(updated_flat') = Contribution(dir[last'.level])]_vars

\* C5 witness: a chunk file that does not parse made the counts differ; the
\* earlier merged file is still there.
C5_Witness ==
    /\ MergeDone /\ last.result = "abort"
    /\ merged[last.level] = OldMerged
    /\ \E n \in DOMAIN dir[last.level].files : dir[last.level].files[n] = Invalid
    /\ Len(SrcRefs) > Len(updated_flat)
    /\ updated_flat # <<>>

\* C6: with equal counts the merge is not aborted; an entry whose word or
\* reading differs from the updated entry of its position is written as it is
\* in the source, and every other entry gets the mean of the updated entry of
\* its position.
C6_MismatchSkip ==
    (MergeDone /\ SameCount) =>
        /\ last.result = "written"
        /\ \A i \in DOMAIN SrcRefs :
              IF DiffersAt(i)
              THEN MergedItem(i) = SrcItem(i)
              ELSE /\ "mean" \in DOMAIN MergedItem(i).f
                   /\ MergedItem(i).f["mean"] = Get(updated_flat[i].f, "mean", "")

\* C6 witness: a mismatch at position i, and a later position that received
\* an edited mean.
C6_Witness ==
    /\ MergeDone /\ SameCount /\ last.result = "written"
    /\ \E i, j \in DOMAIN SrcRefs :
          /\ i < j
          /\ DiffersAt(i) /\ ~DiffersAt(j)
          /\ MergedItem(j).f["mean"] = "new"
          /\ SrcItem(j).f["mean"] # "new"

\* C2: a driver that has ended has called its per-level function on every
\* level 1..5.
C2_EveryLevelAttempted ==
    pc.status \in {"done", "crashed"} => attempted = Levels

====
